---------------------------- MODULE Spec2Model ----------------------------
(***************************************************************************)
(* A model of src/DiceGame.js: the non-transitive dice game.               *)
(*                                                                         *)
(* The interactive program is modelled handler by handler: one action per  *)
(* answer that getUserInput resolves, running from that answer to the next *)
(* prompt (or to the end of play()).  Local constants of the async methods *)
(* are variables of the model, named as in the source.  A dice is a        *)
(* sequence of six faces; a reference to a dice of this.diceArray is its   *)
(* 1-based position in the array (0: no dice), so that dice identity       *)
(* (=== / !== on objects) is position equality.  Face indexes stay 0-based *)
(* as in the source.                                                       *)
(*                                                                         *)
(* The pure functions (generateRandomInteger, the throw combiner,          *)
(* calculateProbabilities) are also exercised alone, under SpecUnit, with  *)
(* arguments drawn from bounded sets.                                      *)
(***************************************************************************)
EXTENDS Integers, Sequences, FiniteSets

VARIABLES
    diceArray,           \* this.diceArray
    difficulty,          \* this.difficulty
    this_computerChoice, \* this.computerChoice (read at line 166, never assigned)
    pc,                  \* the prompt the program is waiting at
    firstMover,          \* which of userMoveFirst / computerMoveFirst is running
    key, computerChoice, hmac, userGuess, revealed,      \* startGame
    userDice, computerDice,                              \* userMoveFirst / computerMoveFirst
    computerKey1, computerRollIndex1, computerHMAC1,     \* playTurns, computer's throw
    userThrow1, revealed1, result1, computerRoll,
    computerKey2, computerRollIndex2, computerHMAC2,     \* playTurns, user's throw
    userThrow2, revealed2, result2, userDiceRoll,
    outcome,             \* "You win!" / "Computer wins!" as last printed
    verifiedReveals,     \* digests recomputed from a revealed pair and compared
    unit                 \* SpecUnit: the function applied, its arguments and result

gameVars == <<diceArray, difficulty, this_computerChoice, pc, firstMover,
              key, computerChoice, hmac, userGuess, revealed,
              userDice, computerDice,
              computerKey1, computerRollIndex1, computerHMAC1,
              userThrow1, revealed1, result1, computerRoll,
              computerKey2, computerRollIndex2, computerHMAC2,
              userThrow2, revealed2, result2, userDiceRoll,
              outcome, verifiedReveals>>

vars == <<gameVars, unit>>

---------------------------------------------------------------------------
(* Bounds and program constants *)

\* crypto.randomBytes(4).readUInt32BE(0) is a 32-bit value; the model draws
\* RawBits bits.  2^4 and 2^32 leave the same remainders modulo 2, 3 and 6.
RawBits == 4

\* Largest modulus the combiner is exercised with under SpecUnit.
MaxModulus == 7

\* Faces of a dice, and the modulus of the throw rounds.
Faces == 6

\* Modulus of the first-mover round: generateRandomInteger(2).
Coin == 2

\* Digits of toFixed(4), as a power of ten.
Fixed4Scale == 10000

\* JavaScript's undefined, for a property that was never assigned and for a
\* local whose declaration has not run.  Numbers of the program are >= 0.
Undefined == -1

\* The indexes of the faces of a dice.
FaceIndexes == 0 .. (Faces - 1)

RawWidth == 2 ^ RawBits

RawValues == 0 .. (RawWidth - 1)

\* Keys that crypto.randomBytes(32).toString('hex') may return.
Keys == {"k1", "k2"}

\* Trimmed lines the human may type at a prompt.
Inputs == {"0", "1", "2", "3", "4", "5", "6", "X"}

DigitStrings == {"0", "1", "2", "3", "4", "5", "6"}

\* Number(s) for the strings the program converts.
Number(s) ==
    CASE s = "0" -> 0 [] s = "1" -> 1 [] s = "2" -> 2 [] s = "3" -> 3
      [] s = "4" -> 4 [] s = "5" -> 5 [] s = "6" -> 6

\* message.toString() for the integers the program commits to.
messageToString(n) ==
    CASE n = 0 -> "0" [] n = 1 -> "1" [] n = 2 -> "2" [] n = 3 -> "3"
      [] n = 4 -> "4" [] n = 5 -> "5" [] n = 6 -> "6"

\* /^[1-9]\d*$/ over Inputs.
MatchesDiceNumber(s) == s \in {"1", "2", "3", "4", "5", "6"}

\* validateArgs: at least 3 dice configurations.
MinDice == 3

\* Most dice in a dice set exercised under SpecUnit.
MaxDice == 3

\* Dice that the sets exercised under SpecUnit are made of.
DicePool ==
    { <<2,2,4,4,9,9>>, <<6,8,1,1,8,6>>, <<7,5,3,7,5,3>>,
      <<1,2,3,4,5,6>>, <<3,3,3,3,3,3>> }

\* Every sequence of MinDice .. MaxDice dice of the pool.
UnitDiceSets ==
    UNION { [1 .. n -> DicePool] : n \in MinDice .. MaxDice }

\* Dice that the sets selectComputerDice is exercised with are made of; a
\* dice may come several times in a set, as in the program's arguments.
SelectDicePool ==
    { <<2,2,4,4,9,9>>, <<1,2,3,4,5,6>>, <<3,3,3,3,3,3>> }

SelectDiceSets ==
    UNION { [1 .. n -> SelectDicePool] : n \in MinDice .. MaxDice }

\* Dice sets the game is started with (each passes validateArgs and Dice).
GameDiceSets ==
    { << <<2,2,4,4,9,9>>, <<6,8,1,1,8,6>>, <<7,5,3,7,5,3>> >>,
      << <<1,2,3,4,5,6>>, <<3,3,3,3,3,3>>, <<1,1,1,6,6,6>> >> }

---------------------------------------------------------------------------
(* SecureRandom *)

\* generateRandomInteger(range), given the value read from the random buffer.
generateRandomInteger(range, randomValue) == randomValue % range

\* calculateHMAC(key, message): the digest of (key, message.toString()),
\* taken as collision-free.
calculateHMAC(k, message) == [key |-> k, message |-> messageToString(message)]

---------------------------------------------------------------------------
(* Dice *)

\* roll with the face after the one asked for (an index one too high).
rollNext(dice, index) == dice[((index + 1) % Len(dice)) + 1]

\* Dice.roll(index), index 0-based, for an index with which it does not throw.
roll(dice, index) == dice[index + 1]

\* The condition under which Dice.roll throws.
rollThrows(dice, index) == index < 0 \/ index >= Len(dice)

---------------------------------------------------------------------------
(* Probability *)

\* winCountFrom with equal faces counted as wins (>= for >).
RECURSIVE winCountFromTies(_, _, _)
winCountFromTies(a, b, n) ==
    IF n = Faces * Faces THEN 0
    ELSE (IF roll(a, n \div Faces) >= roll(b, n % Faces) THEN 1 ELSE 0)
         + winCountFromTies(a, b, n + 1)

\* The x, y loops of calculateProbabilities: the wins counted from the
\* n-th pair (x, y) = (n \div 6, n % 6) on.
RECURSIVE winCountFrom(_, _, _)
winCountFrom(a, b, n) ==
    IF n = Faces * Faces THEN 0
    ELSE (IF roll(a, n \div Faces) > roll(b, n % Faces) THEN 1 ELSE 0)
         + winCountFrom(a, b, n + 1)

\* winCount with the pair (0, 0) left out (a loop starting one late).
winCountSkipsFirst(a, b) == winCountFrom(a, b, 1)

winCount(a, b) == winCountFrom(a, b, 0)

\* (x).toFixed(4) for x = count / 36, as the integer of its four decimals
\* ("0.5556" is 5556).  No count / 36 lies on a rounding boundary.
toFixed4(count) == (count * Fixed4Scale * 2 + Faces * Faces) \div (Faces * Faces * 2)

\* calculateProbabilities(diceArray): 0 on the diagonal.
calculateProbabilities(dice) ==
    [i \in 1 .. Len(dice) |->
        [j \in 1 .. Len(dice) |->
            IF i = j THEN 0 ELSE toFixed4(winCount(dice[i], dice[j]))]]


---------------------------------------------------------------------------
(* Startup: main, Game.constructor, Game.validateArgs *)

\* Most command-line arguments main is exercised with under SpecUnit.
MaxArgs == 4

\* Command-line arguments, each as the fields arg.split(',') gives.
ArgPool ==
    { <<"1", "2", "3", "4", "5", "6">>,
      <<"3", "3", "3", "3", "3", "3">>,
      <<"1", "2", "3", "4", "5">>,
      <<"1", "2", "3", "4", "5", "6", "6">>,
      <<"1", "2", "3", "4", "5", "-1">>,
      <<"1", "2", "3", "4", "5", "1.5">> }

ArgLists == UNION { [1 .. n -> ArgPool] : n \in 0 .. MaxArgs }

\* /^(\d+,){5}\d+$/ on the argument: six fields of digits only.
matchesDiceSpec(arg) ==
    /\ Len(arg) = Faces
    /\ \A f \in 1 .. Len(arg) : arg[f] \in DigitStrings

\* Whether validateArgs(args) throws.
validateArgsThrows(args) ==
    \/ Len(args) < MinDice
    \/ \E a \in 1 .. Len(args) : ~ matchesDiceSpec(args[a])

\* Whether new Dice(values) throws, for values that are numbers of digit
\* strings (all integers).
diceConstructorThrows(values) ==
    \/ Len(values) # Faces
    \/ \E v \in 1 .. Len(values) : values[v] < 0

\* arg.split(',').map(Number).
diceValues(arg) == [f \in 1 .. Len(arg) |-> Number(arg[f])]

\* Whether new Game(args) throws.
gameConstructorThrows(args) ==
    IF validateArgsThrows(args) THEN TRUE
    ELSE \E a \in 1 .. Len(args) : diceConstructorThrows(diceValues(args[a]))

\* The script body: with fewer than 3 arguments process.exit(1); otherwise
\* new Game(args) and game.play() in a try whose catch prints the error, after
\* which the script ends and the process exits with code 0.  With a game
\* constructed, play() shows the main menu and the process stays alive.
main(args) ==
    IF Len(args) < MinDice
    THEN [exited |-> TRUE, exitCode |-> 1, menuShown |-> FALSE, diceArray |-> <<>>]
    ELSE IF gameConstructorThrows(args)
         THEN [exited |-> TRUE, exitCode |-> 0, menuShown |-> FALSE,
               diceArray |-> <<>>]
         ELSE [exited |-> FALSE, exitCode |-> 0, menuShown |-> TRUE,
               diceArray |-> [a \in 1 .. Len(args) |-> diceValues(args[a])]]

---------------------------------------------------------------------------
(* Game.selectComputerDice *)

\* availableDice with nothing filtered out.
availableDiceUnfiltered(dice, excludeDice) == [i \in 1 .. Len(dice) |-> i]

\* this.diceArray.filter(dice => dice !== excludeDice), as positions.
availableDice(dice, excludeDice) ==
    SelectSeq([i \in 1 .. Len(dice) |-> i], LAMBDA i : i # excludeDice)

\* probabilities[index][excludeIndex] || 0: the entry is undefined when
\* indexOf found nothing (excludeIndex 0 here, -1 in the source).
winProbabilityOf(probabilities, index, excludeIndex) ==
    IF excludeIndex = 0 THEN 0 ELSE probabilities[index][excludeIndex]

\* bestDiceFrom with >= for >: the last of several best dice is kept.
RECURSIVE bestDiceFromLast(_, _, _, _, _)
bestDiceFromLast(probabilities, excludeIndex, index, bestDice, bestProbability) ==
    IF index > Len(probabilities) THEN bestDice
    ELSE IF index # excludeIndex
              /\ winProbabilityOf(probabilities, index, excludeIndex) >= bestProbability
         THEN bestDiceFromLast(probabilities, excludeIndex, index + 1, index,
                               winProbabilityOf(probabilities, index, excludeIndex))
         ELSE bestDiceFromLast(probabilities, excludeIndex, index + 1, bestDice,
                               bestProbability)

\* The forEach of the medium branch from position index on; the result is
\* bestDice (0: null).  winProbability and bestProbability are the strings
\* of toFixed(4) ("0.dddd" or "1.0000", which > orders as their values) or
\* the numbers 0 and -1, here all in ten-thousandths.
RECURSIVE bestDiceFrom(_, _, _, _, _)
bestDiceFrom(probabilities, excludeIndex, index, bestDice, bestProbability) ==
    IF index > Len(probabilities) THEN bestDice
    ELSE IF index # excludeIndex
              /\ winProbabilityOf(probabilities, index, excludeIndex) > bestProbability
         THEN bestDiceFrom(probabilities, excludeIndex, index + 1, index,
                           winProbabilityOf(probabilities, index, excludeIndex))
         ELSE bestDiceFrom(probabilities, excludeIndex, index + 1, bestDice,
                           bestProbability)

\* The random pick among the available dice.
randomDice(dice, excludeDice, randomValue) ==
    availableDice(dice, excludeDice)[
        generateRandomInteger(Len(availableDice(dice, excludeDice)), randomValue) + 1]

\* selectComputerDice(excludeDice), excludeDice 0 for null, given the value
\* the random buffer would hold.
selectComputerDice(dice, level, excludeDice, randomValue) ==
    IF level = "medium"
    THEN LET bestDice == bestDiceFrom(calculateProbabilities(dice), excludeDice,
                                      1, 0, 0 - Fixed4Scale)
         IN  IF bestDice = 0 THEN randomDice(dice, excludeDice, randomValue)
             ELSE bestDice
    ELSE randomDice(dice, excludeDice, randomValue)

---------------------------------------------------------------------------
(* Game: the session *)

\* combine with the contributions multiplied.
combineProduct(a, b, modulus) == (a * b) % modulus

\* combine with the modulo forgotten.
combineNoModulo(a, b, modulus) == a + b

\* The combiner of a throw round: (Number(userThrow) + computerRollIndex) % 6.
combine(a, b, modulus) == (a + b) % modulus

NoReveal == <<>>

NoDigest == [key |-> "undefined", message |-> "undefined"]

\* The locals of startGame before its declarations run.
StartGameLocalsUndefined ==
    /\ key' = "undefined"
    /\ computerChoice' = Undefined
    /\ hmac' = NoDigest
    /\ userGuess' = "undefined"
    /\ revealed' = NoReveal

\* The locals of userMoveFirst / computerMoveFirst before their declarations run.
MoveLocalsUndefined ==
    /\ firstMover' = "none"
    /\ userDice' = 0
    /\ computerDice' = 0

\* The locals of the computer's throw of playTurns before their declarations run.
Throw1LocalsUndefined ==
    /\ userThrow1' = "undefined"
    /\ revealed1' = NoReveal
    /\ result1' = Undefined
    /\ computerRoll' = Undefined

\* The locals of the user's throw of playTurns before their declarations run.
Throw2LocalsUndefined ==
    /\ computerKey2' = "undefined"
    /\ computerRollIndex2' = Undefined
    /\ computerHMAC2' = NoDigest
    /\ userThrow2' = "undefined"
    /\ revealed2' = NoReveal
    /\ result2' = Undefined
    /\ userDiceRoll' = Undefined

\* new Game(args) with valid args, then play() up to the main menu prompt.
Init ==
    /\ diceArray \in GameDiceSets
    /\ difficulty = "undefined"
    /\ this_computerChoice = Undefined
    /\ pc = "menu"
    /\ firstMover = "none"
    /\ key = "undefined" /\ computerChoice = Undefined /\ hmac = NoDigest
    /\ userGuess = "undefined" /\ revealed = NoReveal
    /\ userDice = 0 /\ computerDice = 0
    /\ computerKey1 = "undefined" /\ computerRollIndex1 = Undefined
    /\ computerHMAC1 = NoDigest
    /\ userThrow1 = "undefined" /\ revealed1 = NoReveal
    /\ result1 = Undefined /\ computerRoll = Undefined
    /\ computerKey2 = "undefined" /\ computerRollIndex2 = Undefined
    /\ computerHMAC2 = NoDigest
    /\ userThrow2 = "undefined" /\ revealed2 = NoReveal
    /\ result2 = Undefined /\ userDiceRoll = Undefined
    /\ outcome = "none"
    /\ verifiedReveals = {}
    /\ unit = [fn |-> "none"]

\* The locals of playTurns before their declarations run.
PlayTurnsLocalsUndefined ==
    /\ computerKey1' = "undefined"
    /\ computerRollIndex1' = Undefined
    /\ computerHMAC1' = NoDigest
    /\ Throw1LocalsUndefined
    /\ Throw2LocalsUndefined

\* play(): the answer to 'Choose an option: '.  '1' runs startGame up to its
\* difficulty prompt; '2' displays the table; '3' returns, which ends the
\* process with no call left; anything else prints 'Invalid option' and
\* loops.  The locals kept from a finished round are those it printed.
MenuInput(choice) ==
    /\ pc = "menu"
    /\ IF choice \in {"1", "3"}
       THEN /\ pc' = IF choice = "1" THEN "difficulty" ELSE "exited"
            /\ StartGameLocalsUndefined
            /\ MoveLocalsUndefined
            /\ PlayTurnsLocalsUndefined
            /\ outcome' = IF choice = "1" THEN "none" ELSE outcome
       ELSE UNCHANGED <<pc, firstMover,
                        key, computerChoice, hmac, userGuess, revealed,
                        userDice, computerDice,
                        computerKey1, computerRollIndex1, computerHMAC1,
                        userThrow1, revealed1, result1, computerRoll,
                        computerKey2, computerRollIndex2, computerHMAC2,
                        userThrow2, revealed2, result2, userDiceRoll, outcome>>
    /\ UNCHANGED <<diceArray, difficulty, this_computerChoice, verifiedReveals, unit>>

\* startGame(): the answer to 'Choose difficulty (1 or 2): '.  An answer
\* other than '1' and '2' defaults to easy.  The computer then commits to a
\* bit and asks for the guess.
DifficultyInput(answer) ==
    /\ pc = "difficulty"
    /\ difficulty' = IF answer = "2" THEN "medium" ELSE "easy"
    /\ \E k \in Keys, randomValue \in RawValues :
          /\ key' = k
          /\ computerChoice' = generateRandomInteger(Coin, randomValue)
          /\ hmac' = calculateHMAC(k, generateRandomInteger(Coin, randomValue))
    /\ pc' = "guess"
    /\ UNCHANGED <<diceArray, this_computerChoice, firstMover, userGuess, revealed,
                   userDice, computerDice,
                   computerKey1, computerRollIndex1, computerHMAC1,
                   userThrow1, revealed1, result1, computerRoll,
                   computerKey2, computerRollIndex2, computerHMAC2,
                   userThrow2, revealed2, result2, userDiceRoll,
                   outcome, verifiedReveals, unit>>

\* The first mover startGame decides on: the test of line 166.
decideFirstMover(guess, fieldValue) ==
    IF Number(guess) = fieldValue THEN "user" ELSE "computer"

\* startGame(): the answer to 'Guess the computer's choice (0 or 1): '.  An
\* invalid answer starts startGame again.  A valid one reveals key and
\* message and runs userMoveFirst or computerMoveFirst up to the dice prompt
\* of selectDice; computerMoveFirst selects the computer's dice first.
GuessInput(answer) ==
    /\ pc = "guess"
    /\ IF answer \notin {"0", "1"}
       THEN /\ pc' = "difficulty"
            /\ StartGameLocalsUndefined
            /\ UNCHANGED <<firstMover, userDice, computerDice>>
       ELSE /\ userGuess' = answer
            /\ revealed' = <<key, computerChoice>>
            /\ firstMover' = decideFirstMover(answer, this_computerChoice)
            /\ userDice' = 0
            /\ IF decideFirstMover(answer, this_computerChoice) = "user"
               THEN computerDice' = 0
               ELSE \E randomValue \in RawValues :
                       computerDice' = selectComputerDice(diceArray, difficulty,
                                                          0, randomValue)
            /\ pc' = "selectDice"
            /\ UNCHANGED <<key, computerChoice, hmac>>
    /\ UNCHANGED <<diceArray, difficulty, this_computerChoice,
                   computerKey1, computerRollIndex1, computerHMAC1,
                   userThrow1, revealed1, result1, computerRoll,
                   computerKey2, computerRollIndex2, computerHMAC2,
                   userThrow2, revealed2, result2, userDiceRoll,
                   outcome, verifiedReveals, unit>>

\* The answers playTurns takes as a number to add (lines 207 and 230).
\* throwChoices as a list that no trimmed answer equals (numbers for strings).
throwChoicesOfNumbers == { c \in Inputs : FALSE }

throwChoices == {"0", "1", "2", "3", "4", "5"}

\* validDiceChoice with the upper limit one too high.
validDiceChoiceOffByOne(choice, count) ==
    /\ MatchesDiceNumber(choice)
    /\ Number(choice) >= 1
    /\ Number(choice) <= count + 1

\* The negation of the test of line 285: the choice names one of count dice.
validDiceChoice(choice, count) ==
    /\ MatchesDiceNumber(choice)
    /\ Number(choice) >= 1
    /\ Number(choice) <= count

\* PlayTurnsHead going straight to the user's throw.
PlayTurnsHeadSkipsComputerThrow ==
    /\ computerKey1' = "undefined"
    /\ computerRollIndex1' = Undefined
    /\ computerHMAC1' = NoDigest
    /\ Throw1LocalsUndefined
    /\ \E k \in Keys, randomValue \in RawValues :
          /\ computerKey2' = k
          /\ computerRollIndex2' = generateRandomInteger(Faces, randomValue)
          /\ computerHMAC2' = calculateHMAC(k, generateRandomInteger(Faces, randomValue))
    /\ userThrow2' = "undefined"
    /\ revealed2' = NoReveal
    /\ result2' = Undefined
    /\ userDiceRoll' = Undefined
    /\ pc' = "throw2"

\* The head of playTurns: the computer commits to a face index and asks for
\* the user's number.  Every local of the method starts afresh.
PlayTurnsHead ==
    /\ \E k \in Keys, randomValue \in RawValues :
          /\ computerKey1' = k
          /\ computerRollIndex1' = generateRandomInteger(Faces, randomValue)
          /\ computerHMAC1' = calculateHMAC(k, generateRandomInteger(Faces, randomValue))
    /\ Throw1LocalsUndefined
    /\ Throw2LocalsUndefined
    /\ pc' = "throw1"

\* selectDice(): the answer to 'Your choice: '.  An invalid answer asks
\* again.  A valid one returns the dice; userMoveFirst then selects the
\* computer's dice with the user's excluded; both go on into playTurns.
\* The locals of startGame are not in scope in playTurns and are not read
\* after it returns.
SelectDiceInput(choice) ==
    /\ pc = "selectDice"
    /\ IF ~ validDiceChoice(choice, Len(diceArray))
       THEN UNCHANGED gameVars
       ELSE /\ userDice' = Number(choice)
            /\ IF firstMover = "user"
               THEN \E randomValue \in RawValues :
                       computerDice' = selectComputerDice(diceArray, difficulty,
                                                          Number(choice), randomValue)
               ELSE computerDice' = computerDice
            /\ PlayTurnsHead
            /\ StartGameLocalsUndefined
            /\ UNCHANGED <<diceArray, difficulty, this_computerChoice, firstMover,
                           outcome, verifiedReveals>>
    /\ UNCHANGED unit

\* The result of a comparison as playTurns prints it (lines 243-247).
compareRolls(userRoll, computerRollValue) ==
    IF userRoll > computerRollValue THEN "user" ELSE "computer"

\* playTurns(): the answer to the first 'Your selection: '.  An invalid
\* answer starts playTurns again.  A valid one reveals the computer's
\* number, rolls the computer's dice, commits to the second number and asks
\* for the user's second number.  Were Dice.roll to throw, the rejection
\* would reach no handler and end the process.
Throw1Input(answer) ==
    /\ pc = "throw1"
    /\ IF answer \notin throwChoices
       THEN PlayTurnsHead
       ELSE /\ userThrow1' = answer
            /\ revealed1' = <<computerKey1, computerRollIndex1>>
            /\ result1' = combine(Number(answer), computerRollIndex1, Faces)
            /\ IF rollThrows(diceArray[computerDice],
                             combine(Number(answer), computerRollIndex1, Faces))
               THEN /\ computerRoll' = Undefined
                    /\ pc' = "crashed"
                    /\ UNCHANGED <<computerKey2, computerRollIndex2, computerHMAC2>>
               ELSE /\ computerRoll' =
                          roll(diceArray[computerDice],
                               combine(Number(answer), computerRollIndex1, Faces))
                    /\ \E k \in Keys, randomValue \in RawValues :
                          /\ computerKey2' = k
                          /\ computerRollIndex2' =
                                generateRandomInteger(Faces, randomValue)
                          /\ computerHMAC2' =
                                calculateHMAC(k, generateRandomInteger(Faces, randomValue))
                    /\ pc' = "throw2"
            /\ UNCHANGED <<computerKey1, computerRollIndex1, computerHMAC1,
                           userThrow2, revealed2, result2, userDiceRoll>>
    /\ UNCHANGED <<diceArray, difficulty, this_computerChoice, firstMover,
                   key, computerChoice, hmac, userGuess, revealed,
                   userDice, computerDice, outcome, verifiedReveals, unit>>

\* playTurns(): the answer to the second 'Your selection: '.  An invalid
\* answer starts playTurns again.  A valid one reveals the second number,
\* rolls the user's dice, prints the winner and returns to the main menu.
Throw2Input(answer) ==
    /\ pc = "throw2"
    /\ IF answer \notin throwChoices
       THEN /\ PlayTurnsHead
            /\ UNCHANGED outcome
       ELSE /\ userThrow2' = answer
            /\ revealed2' = <<computerKey2, computerRollIndex2>>
            /\ result2' = combine(Number(answer), computerRollIndex2, Faces)
            /\ IF rollThrows(diceArray[userDice],
                             combine(Number(answer), computerRollIndex2, Faces))
               THEN /\ userDiceRoll' = Undefined
                    /\ pc' = "crashed"
                    /\ UNCHANGED outcome
               ELSE /\ userDiceRoll' =
                          roll(diceArray[userDice],
                               combine(Number(answer), computerRollIndex2, Faces))
                    /\ outcome' = compareRolls(
                          roll(diceArray[userDice],
                               combine(Number(answer), computerRollIndex2, Faces)),
                          computerRoll)
                    /\ pc' = "menu"
            /\ UNCHANGED <<computerKey1, computerRollIndex1, computerHMAC1,
                           userThrow1, revealed1, result1, computerRoll,
                           computerKey2, computerRollIndex2, computerHMAC2>>
    /\ UNCHANGED <<diceArray, difficulty, this_computerChoice, firstMover,
                   key, computerChoice, hmac, userGuess, revealed,
                   userDice, computerDice, verifiedReveals, unit>>

Next ==
    \/ \E choice \in Inputs : MenuInput(choice)
    \/ \E answer \in Inputs : DifficultyInput(answer)
    \/ \E answer \in Inputs : GuessInput(answer)
    \/ \E choice \in Inputs : SelectDiceInput(choice)
    \/ \E answer \in Inputs : Throw1Input(answer)
    \/ \E answer \in Inputs : Throw2Input(answer)

Spec == Init /\ [][Next]_vars

\* The human's answers to the prompts of a round that the program accepts.
ValidDifficultyAnswer == \E answer \in {"1", "2"} : DifficultyInput(answer)

ValidGuessAnswer == \E answer \in {"0", "1"} : GuessInput(answer)

ValidDiceAnswer == \E choice \in {"1", "2", "3"} : SelectDiceInput(choice)

ValidThrow1Answer ==
    \E answer \in {"0", "1", "2", "3", "4", "5"} : Throw1Input(answer)

ValidThrow2Answer ==
    \E answer \in {"0", "1", "2", "3", "4", "5"} : Throw2Input(answer)

\* The session with a human who, at every prompt of a round, eventually
\* gives a valid answer, however often the prompt comes back.
SpecFair ==
    /\ Spec
    /\ SF_vars(ValidDifficultyAnswer)
    /\ SF_vars(ValidGuessAnswer)
    /\ SF_vars(ValidDiceAnswer)
    /\ SF_vars(ValidThrow1Answer)
    /\ SF_vars(ValidThrow2Answer)


---------------------------------------------------------------------------
(* The pure functions alone *)

\* One function is applied, once, to arguments of the bounded sets.

\* SecureRandom.generateRandomInteger(range) for a positive range.
CallGenerateRandomInteger ==
    /\ unit.fn = "none"
    /\ \E range \in 1 .. RawWidth, randomValue \in RawValues :
          unit' = [fn |-> "generateRandomInteger", range |-> range,
                   randomValue |-> randomValue,
                   result |-> generateRandomInteger(range, randomValue)]
    /\ UNCHANGED gameVars

\* The combiner of lines 214 and 237, for a modulus and two contributions.
CallCombine ==
    /\ unit.fn = "none"
    /\ \E modulus \in 1 .. MaxModulus :
          \E a, b \in 0 .. (modulus - 1) :
              unit' = [fn |-> "combine", modulus |-> modulus, a |-> a, b |-> b,
                       result |-> combine(a, b, modulus)]
    /\ UNCHANGED gameVars

\* Probability.calculateProbabilities(diceArray).
CallCalculateProbabilities ==
    /\ unit.fn = "none"
    /\ \E dice \in UnitDiceSets :
          unit' = [fn |-> "calculateProbabilities", diceArray |-> dice,
                   result |-> calculateProbabilities(dice)]
    /\ UNCHANGED gameVars

\* Game.selectComputerDice(excludeDice) for a dice set, a difficulty, an
\* excluded dice (0: none) and the value of the random buffer.
CallSelectComputerDice ==
    /\ unit.fn = "none"
    /\ \E dice \in SelectDiceSets, level \in {"easy", "medium"} :
          \E excludeDice \in 0 .. Len(dice), randomValue \in RawValues :
              unit' = [fn |-> "selectComputerDice", diceArray |-> dice,
                       difficulty |-> level, excludeDice |-> excludeDice,
                       randomValue |-> randomValue,
                       result |-> selectComputerDice(dice, level, excludeDice,
                                                     randomValue)]
    /\ UNCHANGED gameVars

\* The script run with command-line arguments args.
CallMain ==
    /\ unit.fn = "none"
    /\ \E args \in ArgLists :
          unit' = [fn |-> "main", args |-> args, result |-> main(args)]
    /\ UNCHANGED gameVars

NextUnit ==
    \/ CallMain
    \/ CallGenerateRandomInteger
    \/ CallCombine
    \/ CallCalculateProbabilities
    \/ CallSelectComputerDice

SpecUnit == Init /\ [][NextUnit]_vars


---------------------------------------------------------------------------
(* Claims about the session, under Spec *)

ValidThrows == {"0", "1", "2", "3", "4", "5"}

\* C1: in every round that reaches the throw phase, the dice selected by
\* the human and the dice selected by the computer are two distinct members
\* of the dice set, whichever party moved first.
C1_SelectedDiceDistinct ==
    pc \in {"throw1", "throw2"} =>
        /\ userDice \in 1 .. Len(diceArray)
        /\ computerDice \in 1 .. Len(diceArray)
        /\ userDice # computerDice

\* C2: in every fair-value round the revealed (key, value) is checked
\* against the published digest before the combined result is used: once a
\* first mover is decided or a dice is rolled from a revealed value, the
\* digest of that round has been recomputed and compared.
C2_RevealVerifiedBeforeUse ==
    /\ (firstMover # "none" /\ revealed # NoReveal) => hmac \in verifiedReveals
    /\ computerRoll # Undefined => computerHMAC1 \in verifiedReveals
    /\ userDiceRoll # Undefined => computerHMAC2 \in verifiedReveals

\* C3: in every fair-value round the computer's value is drawn and its
\* digest published before the human's contribution is requested, key and
\* value are revealed only after a valid contribution, and the value
\* revealed and used in the result is the value that was committed.
C3_CommitThenRevealSameValue ==
    /\ pc = "guess" =>
          /\ computerChoice \in 0 .. 1
          /\ hmac = calculateHMAC(key, computerChoice)
          /\ revealed = NoReveal
    /\ revealed # NoReveal =>
          /\ userGuess \in {"0", "1"}
          /\ revealed = <<key, computerChoice>>
          /\ calculateHMAC(revealed[1], revealed[2]) = hmac
          /\ this_computerChoice = revealed[2]
    /\ pc = "throw1" =>
          /\ computerRollIndex1 \in FaceIndexes
          /\ computerHMAC1 = calculateHMAC(computerKey1, computerRollIndex1)
          /\ revealed1 = NoReveal
    /\ revealed1 # NoReveal =>
          /\ userThrow1 \in ValidThrows
          /\ revealed1 = <<computerKey1, computerRollIndex1>>
          /\ calculateHMAC(revealed1[1], revealed1[2]) = computerHMAC1
          /\ result1 = (Number(userThrow1) + revealed1[2]) % 6
    /\ pc = "throw2" =>
          /\ computerRollIndex2 \in FaceIndexes
          /\ computerHMAC2 = calculateHMAC(computerKey2, computerRollIndex2)
          /\ revealed2 = NoReveal
    /\ revealed2 # NoReveal =>
          /\ userThrow2 \in ValidThrows
          /\ revealed2 = <<computerKey2, computerRollIndex2>>
          /\ calculateHMAC(revealed2[1], revealed2[2]) = computerHMAC2
          /\ result2 = (Number(userThrow2) + revealed2[2]) % 6

\* C4: for every valid guess, the human moves first exactly when the guess
\* equals the committed bit, and the computer moves first otherwise.
C4_FirstMoverFollowsGuess ==
    (pc = "selectDice" /\ revealed # NoReveal) =>
        /\ firstMover \in {"user", "computer"}
        /\ firstMover = "user" <=> Number(userGuess) = computerChoice

\* C5: the human wins iff the human's face value is strictly greater, the
\* computer wins iff the computer's is strictly greater, and equal face
\* values give a draw that favours neither party.  (Stated for rounds played
\* with two different dice.)
C5_StrictlyGreaterWins ==
    (pc = "menu" /\ outcome # "none" /\ userDice # computerDice) =>
        /\ outcome = "user" <=> userDiceRoll > computerRoll
        /\ outcome = "computer" <=> computerRoll > userDiceRoll
        /\ outcome \notin {"user", "computer"} <=> userDiceRoll = computerRoll

\* A step in which the human answers a prompt with its exit input: '3' at
\* the main menu, 'X' at the prompts of a round.
ExitAnswered ==
    \/ MenuInput("3")
    \/ DifficultyInput("X")
    \/ GuessInput("X")
    \/ SelectDiceInput("X")
    \/ Throw1Input("X")
    \/ Throw2Input("X")

\* C6: at every point where the program awaits human input, an exit input
\* moves the session directly to the terminal state, with no further prompt
\* and no result of the round in progress.
C6_ExitEndsSession ==
    [][ExitAnswered => (pc' = "exited" /\ outcome' = outcome)]_vars

---------------------------------------------------------------------------
(* Claims about the pure functions, under SpecUnit *)

\* The raw values that generateRandomInteger(range) turns into value.
rawDrawsOf(range, value) ==
    { randomValue \in RawValues : generateRandomInteger(range, randomValue) = value }

\* C7: generateRandomInteger(range) is uniform with no modulo bias: for
\* every range in 1..W, every value of [0, range) is produced by the same
\* number of raw draws, and nothing outside [0, range) is produced.
C7_NoModuloBias ==
    unit.fn = "generateRandomInteger" =>
        /\ unit.result \in 0 .. (unit.range - 1)
        /\ \A v, w \in 0 .. (unit.range - 1) :
              Cardinality(rawDrawsOf(unit.range, v))
                  = Cardinality(rawDrawsOf(unit.range, w))

\* C8: the combiner is a permutation in each argument: with one argument
\* fixed, the result determines the other and every value of [0, m) is a
\* result; user throw 3 with computer value 4 under modulus 6 gives 1.
C8_CombinePermutes ==
    unit.fn = "combine" =>
        LET m == unit.modulus
            range == 0 .. (m - 1)
        IN  /\ unit.result \in range
            /\ \A b2 \in range : combine(unit.a, b2, m) = unit.result => b2 = unit.b
            /\ \A a2 \in range : combine(a2, unit.b, m) = unit.result => a2 = unit.a
            /\ { combine(unit.a, b2, m) : b2 \in range } = range
            /\ { combine(a2, unit.b, m) : a2 \in range } = range
            /\ (m = 6 /\ unit.a = 3 /\ unit.b = 4) => unit.result = 1

\* C8 witness: the combiner applied to user throw 3 and computer value 4
\* under modulus 6, with result 1.
C8_Witness ==
    /\ unit.fn = "combine"
    /\ unit.modulus = 6 /\ unit.a = 3 /\ unit.b = 4
    /\ unit.result = 1

\* The face-index pairs (x, y) at which dice a shows more than dice b.
pairsWon(a, b) ==
    { p \in FaceIndexes \X FaceIndexes : a[p[1] + 1] > b[p[2] + 1] }

\* The face-index pairs (x, y) at which the two dice show the same.
pairsTied(a, b) ==
    { p \in FaceIndexes \X FaceIndexes : a[p[1] + 1] = b[p[2] + 1] }

\* An entry, in ten-thousandths, is count / 36 rounded to four decimals.
IsRounded(entry, count) ==
    /\ 2 * (entry * 36 - count * 10000) <= 36
    /\ 2 * (count * 10000 - entry * 36) <= 36

ScenarioA == << <<2,2,4,4,9,9>>, <<6,8,1,1,8,6>>, <<7,5,3,7,5,3>> >>

\* C9 as stated: entry (i,j) of calculateProbabilities equals the number of
\* pairs (x,y) with dice[i].face(x) > dice[j].face(y) divided by 36, which
\* is 20/36 for A>B, B>C and C>A of scenario A.
C9_EntryIsExactFraction ==
    unit.fn = "calculateProbabilities" =>
        \A i, j \in 1 .. Len(unit.diceArray) :
            i # j =>
                unit.result[i][j] * 36
                    = Cardinality(pairsWon(unit.diceArray[i], unit.diceArray[j])) * 10000

\* C9 as amended: entry (i,j) is that number of pairs divided by 36 and
\* rounded to four decimals (toFixed(4)), equal faces counted for neither
\* side; scenario A gives 0.5556, which is 20/36 rounded, for A>B, B>C and
\* C>A.
C9_EntryIsRoundedFraction ==
    unit.fn = "calculateProbabilities" =>
        /\ \A i, j \in 1 .. Len(unit.diceArray) :
              i # j =>
                  IsRounded(unit.result[i][j],
                            Cardinality(pairsWon(unit.diceArray[i], unit.diceArray[j])))
        /\ unit.diceArray = ScenarioA =>
              /\ Cardinality(pairsWon(ScenarioA[1], ScenarioA[2])) = 20
              /\ Cardinality(pairsWon(ScenarioA[2], ScenarioA[3])) = 20
              /\ Cardinality(pairsWon(ScenarioA[3], ScenarioA[1])) = 20
              /\ unit.result[1][2] = 5556
              /\ unit.result[2][3] = 5556
              /\ unit.result[3][1] = 5556

\* C9 witness: the matrix of scenario A has been computed.
C9_Witness ==
    /\ unit.fn = "calculateProbabilities"
    /\ unit.diceArray = ScenarioA
    /\ unit.result[1][2] = 5556

\* The win count an entry of the matrix stands for: toFixed(4) maps the
\* counts 0..36 to distinct entries.
winsOfEntry(entry) ==
    CHOOSE w \in 0 .. (Faces * Faces) : IsRounded(entry, w)

remainingDice(dice, excludeDice) == (1 .. Len(dice)) \ {excludeDice}

\* C11: with Medium difficulty and the human's dice excluded,
\* selectComputerDice returns the dice d other than the excluded one that
\* maximizes P[d][excluded], and the lowest-indexed one of several such.
C11_MediumPicksBest ==
    (unit.fn = "selectComputerDice" /\ unit.difficulty = "medium"
        /\ unit.excludeDice # 0) =>
        LET P == calculateProbabilities(unit.diceArray)
            ex == unit.excludeDice
            wins(d) == Cardinality(pairsWon(unit.diceArray[d], unit.diceArray[ex]))
        IN  /\ unit.result \in remainingDice(unit.diceArray, ex)
            /\ \A d \in remainingDice(unit.diceArray, ex) :
                  /\ P[d][ex] <= P[unit.result][ex]
                  /\ wins(d) <= wins(unit.result)
                  /\ d < unit.result => P[d][ex] < P[unit.result][ex]

\* C11 witness: Medium with an excluded dice, two remaining dice sharing
\* the highest probability, and the first of them returned.
C11_Witness ==
    /\ unit.fn = "selectComputerDice"
    /\ unit.difficulty = "medium"
    /\ unit.excludeDice = 1
    /\ unit.result = 2
    /\ calculateProbabilities(unit.diceArray)[2][1]
          = calculateProbabilities(unit.diceArray)[3][1]
    /\ unit.diceArray[1] # unit.diceArray[2]

\* C12: with Medium difficulty and no excluded dice, selectComputerDice
\* falls back to a uniform random choice among all dice: the dice returned
\* is the one at the index drawn from generateRandomInteger, so that every
\* dice of the set is a possible selection.
C12_MediumFallsBackToRandom ==
    (unit.fn = "selectComputerDice" /\ unit.difficulty = "medium"
        /\ unit.excludeDice = 0) =>
        /\ unit.result
              = generateRandomInteger(Len(unit.diceArray), unit.randomValue) + 1
        /\ \A d \in 1 .. Len(unit.diceArray) :
              \E randomValue \in RawValues :
                  selectComputerDice(unit.diceArray, "medium", 0, randomValue) = d

\* C15: with Easy difficulty, selectComputerDice returns a member of the
\* dice set that is not the excluded dice, and every non-excluded dice is a
\* possible selection (all dice when nothing is excluded).
C15_EasyPicksAnyRemaining ==
    (unit.fn = "selectComputerDice" /\ unit.difficulty = "easy") =>
        /\ unit.result \in remainingDice(unit.diceArray, unit.excludeDice)
        /\ \A d \in remainingDice(unit.diceArray, unit.excludeDice) :
              \E randomValue \in RawValues :
                  selectComputerDice(unit.diceArray, "easy", unit.excludeDice,
                                     randomValue) = d

\* C15 witness: Easy with dice 2 excluded returned dice 3.
C15_Witness ==
    /\ unit.fn = "selectComputerDice"
    /\ unit.difficulty = "easy"
    /\ unit.excludeDice = 2
    /\ unit.result = 3


\* A dice specification of exactly six non-negative integers.
IsDiceSpecification(arg) ==
    /\ Len(arg) = 6
    /\ \A f \in 1 .. 6 : arg[f] \in {"0", "1", "2", "3", "4", "5", "6"}

\* A valid configuration: at least 3 dice specifications, all well formed.
IsValidConfiguration(args) ==
    /\ Len(args) >= 3
    /\ \A a \in 1 .. Len(args) : IsDiceSpecification(args[a])

\* C13: every startup whose configuration is invalid ends the process with
\* a non-zero exit code before the main menu is shown or a round starts.
C13_InvalidConfigurationExitsNonZero ==
    (unit.fn = "main" /\ ~ IsValidConfiguration(unit.args)) =>
        /\ unit.result.exited
        /\ unit.result.exitCode # 0
        /\ ~ unit.result.menuShown


\* ---------------------------------------------------------------------
\* Properties of the prompts and of a round (specification Spec).

\* A round has been played to its comparison and the menu is shown again.
RoundCompleted == pc = "menu" /\ outcome # "none"

InvalidMenuAnswer == \E choice \in Inputs \ {"1", "2", "3"} : MenuInput(choice)

InvalidDifficultyAnswer ==
    \E answer \in Inputs \ {"1", "2"} : DifficultyInput(answer)

InvalidDiceAnswer ==
    \E choice \in Inputs :
        /\ ~ ( /\ choice \in DigitStrings
               /\ Number(choice) >= 1
               /\ Number(choice) <= Len(diceArray) )
        /\ SelectDiceInput(choice)

\* C14 as stated: a choice outside the options, at the main menu, the
\* difficulty prompt or the dice prompt, leaves the whole state unchanged
\* and the same prompt is shown again.
C14_InvalidChoiceLeavesStateUnchanged ==
    [][ (InvalidMenuAnswer \/ InvalidDifficultyAnswer \/ InvalidDiceAnswer)
            => UNCHANGED vars ]_vars

\* C14 amended: a choice outside the options leaves the whole state
\* unchanged and shows the same prompt again at the main menu and at the
\* dice prompt; at the difficulty prompt it is taken as Easy and the round
\* goes on to the guess.
C14_InvalidChoiceAsksAgainOrDefaults ==
    [][ /\ (InvalidMenuAnswer \/ InvalidDiceAnswer) => UNCHANGED vars
        /\ InvalidDifficultyAnswer =>
              /\ difficulty' = "easy"
              /\ pc' = "guess"
              /\ UNCHANGED <<diceArray, userDice, computerDice, outcome>> ]_vars

\* The dice prompt is open, the computer has its dice, and an answer naming
\* no dice ("6" of three) is taken.
C14_Witness ==
    /\ pc = "selectDice"
    /\ computerDice # 0
    /\ userDice = 0
    /\ ~ validDiceChoice("6", Len(diceArray))
    /\ ENABLED SelectDiceInput("6")

\* C16: in a completed round the computer's rolled value is the face of the
\* computer's dice at (human's first number + computer's first committed
\* number) mod 6, and the human's rolled value is the face of the human's
\* dice at (human's second number + computer's second committed number)
\* mod 6.
C16_RolledValuesAreCombinedFaces ==
    RoundCompleted =>
        /\ computerRoll =
              diceArray[computerDice]
                       [((Number(userThrow1) + computerRollIndex1) % Faces) + 1]
        /\ userDiceRoll =
              diceArray[userDice]
                       [((Number(userThrow2) + computerRollIndex2) % Faces) + 1]

\* A completed round with two different dice in which both sums wrapped
\* around and the two faces differ.
C16_Witness ==
    /\ RoundCompleted
    /\ userDice # computerDice
    /\ Number(userThrow1) + computerRollIndex1 >= Faces
    /\ Number(userThrow2) + computerRollIndex2 >= Faces
    /\ result1 # result2
    /\ computerRoll # userDiceRoll

\* C17: the phases of a round come in order: the first mover is decided
\* before any dice is selected, both dice are selected before a throw round
\* starts, the computer's throw round is complete before the human's
\* starts, and the comparison comes after both throw rounds.
C17_PhasesInOrder ==
    /\ (userDice # 0 \/ computerDice # 0) => firstMover # "none"
    /\ pc = "selectDice" => firstMover # "none"
    /\ (pc \in {"throw1", "throw2"} \/ computerRollIndex1 # Undefined) =>
          /\ userDice # 0
          /\ computerDice # 0
    /\ (pc = "throw2" \/ computerRollIndex2 # Undefined) =>
          /\ revealed1 # NoReveal
          /\ result1 # Undefined
          /\ computerRoll # Undefined
    /\ pc = "throw1" =>
          /\ computerRollIndex2 = Undefined
          /\ userDiceRoll = Undefined
    /\ RoundCompleted =>
          /\ revealed1 # NoReveal
          /\ computerRoll # Undefined
          /\ revealed2 # NoReveal
          /\ result2 # Undefined
          /\ userDiceRoll # Undefined
    /\ pc \in {"difficulty", "guess", "selectDice", "throw1", "throw2"} =>
          outcome = "none"

\* A round that went through every phase.
C17_Witness ==
    /\ RoundCompleted
    /\ firstMover = "computer"
    /\ userDice # 0
    /\ computerDice # 0
    /\ revealed1 # NoReveal
    /\ revealed2 # NoReveal

\* C18: once the computer's throw has been revealed and rolled in a round,
\* no later answer of the human in that round has it drawn again: the
\* computer's committed number and roll stay as they are until the round's
\* comparison.
C18_ComputerThrowNotRedrawn ==
    [][ (pc = "throw2" /\ revealed1 # NoReveal /\ computerRoll # Undefined) =>
            /\ pc' # "throw1"
            /\ computerRollIndex1' = computerRollIndex1
            /\ computerRoll' = computerRoll ]_vars

\* C19: with a human who eventually answers every prompt validly, every
\* round started reaches its comparison and the main menu; the outcome is
\* set once in a round, by the second throw, which returns to the main
\* menu; and after the comparison no throw follows in that round.
C19_RoundEndsWithOneComparison ==
    /\ (pc = "difficulty") ~> RoundCompleted
    /\ [][ outcome' # outcome =>
              \/ pc = "throw2" /\ pc' = "menu" /\ outcome = "none"
              \/ pc = "menu" /\ pc' = "difficulty" /\ outcome' = "none" ]_vars
    /\ [](outcome # "none" =>
              /\ pc \in {"menu", "exited"}
              /\ ~ ENABLED ValidThrow1Answer
              /\ ~ ENABLED ValidThrow2Answer)

\* A round at Medium has been played to its comparison, with a highest
\* first number and a lowest second number from the human.
C19_Witness ==
    /\ RoundCompleted
    /\ userThrow1 = "5"
    /\ userThrow2 = "0"
    /\ difficulty = "medium"

\* C20: the index handed to Dice.roll is always one of 0 .. 5, every dice
\* has six non-negative faces, and so Dice.roll never throws in a round.
C20_RollNeverThrows ==
    /\ pc # "crashed"
    /\ \A d \in 1 .. Len(diceArray) :
          /\ Len(diceArray[d]) = Faces
          /\ \A f \in 1 .. Faces : diceArray[d][f] >= 0
    /\ result1 # Undefined =>
          /\ result1 \in FaceIndexes
          /\ ~ rollThrows(diceArray[computerDice], result1)
    /\ result2 # Undefined =>
          /\ result2 \in FaceIndexes
          /\ ~ rollThrows(diceArray[userDice], result2)

\* A round whose first roll used the highest index and whose second roll
\* used the lowest, from a sum that wrapped around.
C20_Witness ==
    /\ RoundCompleted
    /\ result1 = Faces - 1
    /\ result2 = 0
    /\ Number(userThrow2) + computerRollIndex2 = Faces

===========================================================================
